---- MODULE Spec2Model ----
(***************************************************************************)
(* State-machine model of the stdio MCP client of mcp-registry:            *)
(*   internal/mcp/client.go  (client: Start, ListTools, ListPrompts,       *)
(*                            CallTool, Close)                             *)
(*   internal/mcp/stdio.go   (stdioMCPClient: Initialize, readResponses,   *)
(*                            sendRequest, Close)                          *)
(* One Session (client) and the Transport (stdioMCPClient) it creates, the *)
(* child process, the goroutines Initialize spawns, and a bounded number   *)
(* of concurrent steady-state calls.                                       *)
(***************************************************************************)
EXTENDS Naturals, Sequences, FiniteSets

\* ---------------------------------------------------------------- bounds
\* Number of steady-state calls (ListTools / ListPrompts / CallTool).
MaxCalls == 2

Calls == 1..MaxCalls
\* The handshake uses one request id, each steady-state call one more.
MaxId == MaxCalls + 1
Ids == 1..MaxId

Methods == {"tools/list", "prompts/list", "tools/call"}

\* Lines the child can write to its stdout: a response with a result or an
\* error, a server-to-client request (id and method), a notification (no
\* id), or bytes that are not JSON.
NoLine == [kind |-> "none", id |-> 0]
Lines == [kind : {"result", "error", "request"}, id : Ids]
           \cup {[kind |-> "notification", id |-> 0], [kind |-> "malformed", id |-> 0]}

\* A response channel (capacity 1) and the RPCResponse it may hold; `src` is
\* the line the payload was taken from.
EmptyChan == [full |-> FALSE, isError |-> FALSE, src |-> NoLine]
RPCResponse(line) == [full |-> TRUE, isError |-> line.kind = "error", src |-> line]

NoCall == [pc |-> "idle", id |-> 0]
NoHs   == [pc |-> "none", id |-> 0, err |-> "none"]

\* What an operation hands back to its caller: which operation (op, and for
\* a steady-state call its index), the error ("nil" for success), whether
\* it ran `docker pull` / `docker rmi`, for a steady-state call the line its
\* payload was taken from, and for Close the deleteImage it was given.
NoReturn == [op |-> "none", call |-> 0, res |-> "none", pulled |-> FALSE,
             removed |-> FALSE, src |-> NoLine, deleteImage |-> FALSE]
Returned(op, res, pulled, removed) ==
  [NoReturn EXCEPT !.op = op, !.res = res, !.pulled = pulled, !.removed = removed]
CallReturned(i, res, src) ==
  [NoReturn EXCEPT !.op = "call", !.call = i, !.res = res, !.src = src]

\* No Session-level operation is in progress.
Idle == [op |-> "none", pulled |-> FALSE]

\* ----------------------------------------------------------------- state
VARIABLES
  clC,          \* client.c: 0 = nil, n = the n-th Transport created
  inCall,       \* the Start / Initialize blocked in Initialize at <-errs: [op, pulled]
  ret,          \* the return made in the step that led to this state, if any
  spawned,      \* number of child processes started (cmd.Start succeeded)
  initialized,  \* stdioMCPClient.initialized
  stdin,        \* stdioMCPClient.stdin: "nil" | "open" | "closed"
  closeFn,      \* stdioMCPClient.close is installed
  proc,         \* child process: "none" | "running" | "exited"
  cancelCalled, \* cancel() of ctxCmd has been called
  signalled,    \* cmd.Cancel has sent SIGTERM to the child
  ctx,          \* the context Start hands to Initialize: "live" | "deadline" | "cancelled"
  requestID,    \* stdioMCPClient.requestID
  responses,    \* key set of stdioMCPClient.responses
  chans,        \* the response channel made for each id
  wire,         \* messages written to the child's stdin, in order
  reader,       \* readResponses goroutine: "none" | "running" | "blocked" | "done"
  waiter,       \* cmd.Wait goroutine: "none" | "waiting" | "done"
  watcher,      \* <-ctxCmd.Done() goroutine: "none" | "waiting" | "send" | "done"
  hs,           \* handshake goroutine: [pc, id, err]
  calls,        \* steady-state calls: [pc, id]
  panicked,     \* a nil dereference has crashed the program
  \* -- the functions checked on their own, each under its own specification
  stdout,       \* readResponses: the bytes of the child's stdout not yet read
  callTool,     \* client.CallTool: the caller's arguments and the request built
  discovery,    \* Tools and runRequirement: position, sidecar, clock
  normalizer,   \* Tools, second half: the raw tools and the normalized list
  launcher,     \* client.Start, command rendering: template and rendered tokens
  validate,     \* isNameValid: the name and the verdict
  writes        \* encoder.Encode on stdin: the writers, the descriptor's lock, the bytes

clientVars == <<clC, inCall, ret, spawned, initialized, stdin, closeFn, proc,
                cancelCalled, signalled, ctx, requestID, responses, chans, wire,
                reader, waiter, watcher, hs, calls, panicked>>
auxVars == <<stdout, callTool, discovery, normalizer, launcher, validate, writes>>
vars == <<clientVars, auxVars>>

\* The value of a variable that the specification at hand does not use.
Unused == [pc |-> "unused"]
\* stdout when the lines of the child are drawn as they are read (ReadLine).
NoBytes == [bytes |-> <<>>, pos |-> 0]

sessionVars == <<clC, inCall>>
launchVars  == <<spawned, stdin, closeFn, cancelCalled>>
procVars    == <<proc, signalled>>
taskVars    == <<reader, waiter, watcher, hs>>
mapVars     == <<requestID, responses, chans>>

ClientInit ==
  /\ clC = 0 /\ inCall = Idle /\ ret = NoReturn
  /\ spawned = 0
  /\ initialized = FALSE /\ stdin = "nil" /\ closeFn = FALSE
  /\ proc = "none" /\ cancelCalled = FALSE /\ signalled = FALSE /\ ctx = "live"
  /\ requestID = 0 /\ responses = {} /\ chans = [i \in Ids |-> EmptyChan]
  /\ wire = <<>>
  /\ reader = "none" /\ waiter = "none" /\ watcher = "none" /\ hs = NoHs
  /\ calls = [i \in Calls |-> NoCall]
  /\ panicked = FALSE

Init ==
  /\ ClientInit
  /\ stdout = NoBytes /\ callTool = Unused /\ discovery = Unused
  /\ normalizer = Unused /\ launcher = Unused /\ validate = Unused /\ writes = Unused

\* A step in which nothing returns to a caller.
NoneReturns == ret' = NoReturn

\* ------------------------------------------------------------- Initialize
\* ctxCmd.Done(): ctxCmd = WithCancel(WithoutCancel(ctx)), so only cancel()
\* closes it; the deadline or cancellation of ctx does not reach it.
CtxCmdDone_inherit == cancelCalled \/ ctx # "live"
CtxCmdDone == cancelCalled

\* The guard at the top of Initialize.
AlreadyInitialized_never == FALSE
AlreadyInitialized == initialized

\* The outcomes of StdinPipe, StdoutPipe and cmd.Start.
LaunchOutcomes == {"stdinPipeErr", "stdoutPipeErr", "startErr", "started"}

\* Initialize, from its entry up to the receive on errs; `caller` is "Start"
\* or "Initialize" (a direct call) and `pulled` what Start did before.  A
\* failure before cmd.Start returns at once (Start then runs its deferred
\* cancel of the timeout context); otherwise the goroutines are spawned and
\* the caller blocks on <-errs.
Initialize(outcome, caller, pulled) ==
  IF AlreadyInitialized
  THEN /\ ret' = Returned(caller, "client already initialized", pulled, FALSE)
       /\ inCall' = Idle
       /\ UNCHANGED <<launchVars, procVars, taskVars, mapVars, wire, initialized, ctx>>
  ELSE
    /\ UNCHANGED <<mapVars, wire, initialized, signalled>>
    /\ CASE outcome = "stdinPipeErr" ->
              /\ cancelCalled' = TRUE
              /\ ret' = Returned(caller, "failed to create stdin pipe", pulled, FALSE)
              /\ UNCHANGED <<stdin, closeFn, spawned, proc, taskVars>>
         [] outcome = "stdoutPipeErr" ->
              /\ stdin' = "open"
              /\ cancelCalled' = TRUE
              /\ ret' = Returned(caller, "failed to create stdout pipe", pulled, FALSE)
              /\ UNCHANGED <<closeFn, spawned, proc, taskVars>>
         [] outcome = "startErr" ->
              \* cmd.Start closes the parent ends of the pipes when it fails
              /\ stdin' = "closed"
              /\ cancelCalled' = TRUE
              /\ ret' = Returned(caller, "failed to start command", pulled, FALSE)
              /\ UNCHANGED <<closeFn, spawned, proc, taskVars>>
         [] outcome = "started" ->
              /\ stdin' = "open"
              /\ closeFn' = TRUE
              /\ spawned' = spawned + 1
              /\ proc' = "running"
              /\ cancelCalled' = FALSE
              /\ waiter' = "waiting"
              /\ reader' = "running"
              /\ watcher' = "waiting"
              /\ hs' = [pc |-> "request", id |-> 0, err |-> "none"]
              /\ NoneReturns
    /\ IF outcome = "started"
       THEN /\ inCall' = [op |-> caller, pulled |-> pulled]
            /\ UNCHANGED ctx
       ELSE /\ inCall' = Idle
            /\ ctx' = IF caller = "Start" /\ ctx = "live" THEN "cancelled" ELSE ctx

\* ------------------------------------------------------------------ Start
Start_noGuard(pull, pullFails, outcome) ==
  /\ ~panicked
  /\ inCall = Idle
  /\ clC < 2
  /\ UNCHANGED <<calls, panicked>>
  /\ IF pull /\ pullFails
     THEN /\ ret' = Returned("Start", "pulling image", TRUE, FALSE)
          /\ UNCHANGED <<sessionVars, launchVars, procVars, taskVars, mapVars, wire,
                         initialized, ctx>>
     ELSE /\ clC' = clC + 1
          /\ Initialize(outcome, "Start", pull)
  /\ UNCHANGED auxVars

\* client.Start(ctx, debug).  `pull` is cl.pull, `pullFails` the outcome of
\* `docker pull`.
Start(pull, pullFails, outcome) ==
  /\ ~panicked
  /\ inCall = Idle
  /\ UNCHANGED <<calls, panicked>>
  /\ IF clC # 0
     THEN /\ ret' = Returned("Start", "already started", FALSE, FALSE)
          /\ UNCHANGED <<sessionVars, launchVars, procVars, taskVars, mapVars, wire,
                         initialized, ctx>>
     ELSE IF pull /\ pullFails
     THEN /\ ret' = Returned("Start", "pulling image", TRUE, FALSE)
          /\ UNCHANGED <<sessionVars, launchVars, procVars, taskVars, mapVars, wire,
                         initialized, ctx>>
     ELSE /\ clC' = clC + 1
          /\ Initialize(outcome, "Start", pull)
  /\ UNCHANGED auxVars

\* A direct second call of stdioMCPClient.Initialize on the Session's
\* Transport, made once the first Initialize has succeeded (the call that
\* can meet the `initialized` guard).
Reinitialize(outcome) ==
  /\ ~panicked
  /\ clC # 0 /\ inCall = Idle /\ initialized
  /\ Initialize(outcome, "Initialize", FALSE)
  /\ UNCHANGED <<clC, calls, panicked>>
  /\ UNCHANGED auxVars

\* ------------------------------------------------------ writes to stdin
\* json.Encoder.Encode on c.stdin: a nil writer panics; a closed pipe, or a
\* pipe whose reading process is gone, makes the write fail.
WriteOutcome ==
  IF stdin = "nil" THEN "panic"
  ELSE IF stdin = "closed" \/ proc = "exited" THEN "error"
  ELSE "ok"

\* What a written message looks like on the wire: a request carries its id,
\* a notification carries none (0).
Request(id) == id
Notification == 0

\* ------------------------------------------------ the handshake goroutine
\* sendRequest(ctx, "initialize", ...) up to its select: requestID.Add(1),
\* make(chan, 1), responses.Store(id, ch), encoder.Encode.
HsSendRequest ==
  /\ ~panicked
  /\ hs.pc = "request"
  /\ requestID < MaxId
  /\ requestID' = requestID + 1
  /\ responses' = responses \cup {requestID + 1}
  /\ CASE WriteOutcome = "ok" ->
            /\ wire' = Append(wire, Request(requestID + 1))
            /\ hs' = [hs EXCEPT !.pc = "wait", !.id = requestID + 1]
            /\ UNCHANGED panicked
       [] WriteOutcome = "error" ->
            /\ hs' = [hs EXCEPT !.pc = "send", !.id = requestID + 1,
                                !.err = "failed to encode request"]
            /\ UNCHANGED <<wire, panicked>>
       [] WriteOutcome = "panic" ->
            /\ panicked' = TRUE
            /\ UNCHANGED <<wire, hs>>
  /\ NoneReturns
  /\ UNCHANGED <<sessionVars, launchVars, procVars, reader, waiter, watcher, chans,
                 initialized, ctx, calls>>
  /\ UNCHANGED auxVars

HsRecv_storeFirst ==
  /\ ~panicked
  /\ hs.pc = "wait"
  /\ chans[hs.id].full
  /\ chans' = [chans EXCEPT ![hs.id] = EmptyChan]
  /\ hs' = IF chans[hs.id].isError
           THEN [hs EXCEPT !.pc = "send", !.err = "server error"]
           ELSE IF chans[hs.id].src.kind = "request"
           THEN [hs EXCEPT !.pc = "send", !.err = "failed to unmarshal response"]
           ELSE [hs EXCEPT !.pc = "store"]
  /\ NoneReturns
  /\ UNCHANGED <<sessionVars, launchVars, procVars, reader, waiter, watcher, requestID,
                 responses, wire, initialized, ctx, calls, panicked>>
  /\ UNCHANGED auxVars

\* The select of sendRequest, response case, and the decoding of the result.
HsRecv ==
  /\ ~panicked
  /\ hs.pc = "wait"
  /\ chans[hs.id].full
  /\ chans' = [chans EXCEPT ![hs.id] = EmptyChan]
  /\ hs' = IF chans[hs.id].isError
           THEN [hs EXCEPT !.pc = "send", !.err = "server error"]
           ELSE IF chans[hs.id].src.kind = "request"
           THEN [hs EXCEPT !.pc = "send", !.err = "failed to unmarshal response"]
           ELSE [hs EXCEPT !.pc = "notify"]
  /\ NoneReturns
  /\ UNCHANGED <<sessionVars, launchVars, procVars, reader, waiter, watcher, requestID,
                 responses, wire, initialized, ctx, calls, panicked>>
  /\ UNCHANGED auxVars

\* The select of sendRequest, ctx.Done case: returns ctx.Err().
HsCtxDone ==
  /\ ~panicked
  /\ hs.pc = "wait"
  /\ ctx # "live"
  /\ hs' = [hs EXCEPT !.pc = "send",
                      !.err = IF ctx = "deadline" THEN "context deadline exceeded"
                              ELSE "context canceled"]
  /\ NoneReturns
  /\ UNCHANGED <<sessionVars, launchVars, procVars, reader, waiter, watcher, mapVars,
                 wire, initialized, ctx, calls, panicked>>
  /\ UNCHANGED auxVars

\* The notifications/initialized message.
HsNotify ==
  /\ ~panicked
  /\ hs.pc = "notify"
  /\ CASE WriteOutcome = "ok" ->
            /\ wire' = Append(wire, Notification)
            /\ hs' = [hs EXCEPT !.pc = "store"]
            /\ UNCHANGED panicked
       [] WriteOutcome = "error" ->
            /\ hs' = [hs EXCEPT !.pc = "send",
                                !.err = "failed to marshal initialized notification"]
            /\ UNCHANGED <<wire, panicked>>
       [] WriteOutcome = "panic" ->
            /\ panicked' = TRUE
            /\ UNCHANGED <<wire, hs>>
  /\ NoneReturns
  /\ UNCHANGED <<sessionVars, launchVars, procVars, reader, waiter, watcher, mapVars,
                 initialized, ctx, calls>>
  /\ UNCHANGED auxVars

\* c.initialized.Store(true)
HsStore ==
  /\ ~panicked
  /\ hs.pc = "store"
  /\ initialized' = TRUE
  /\ hs' = [hs EXCEPT !.pc = "send", !.err = "nil"]
  /\ NoneReturns
  /\ UNCHANGED <<sessionVars, launchVars, procVars, reader, waiter, watcher, mapVars,
                 wire, ctx, calls, panicked>>
  /\ UNCHANGED auxVars

\* Initialize receives its error from errs and returns; Start wraps it and
\* runs its deferred cancel of the timeout context.
InitializeReturn(err) ==
  /\ inCall' = Idle
  /\ ret' = Returned(inCall.op, err, inCall.pulled, FALSE)
  /\ ctx' = IF inCall.op = "Start" /\ ctx = "live" THEN "cancelled" ELSE ctx
  /\ UNCHANGED clC

\* errs <- err on the unbuffered channel: it completes only while Initialize
\* is receiving; afterwards the sender stays blocked.
HsSend ==
  /\ ~panicked
  /\ hs.pc = "send"
  /\ inCall # Idle
  /\ InitializeReturn(hs.err)
  /\ hs' = [hs EXCEPT !.pc = "done"]
  /\ UNCHANGED <<launchVars, procVars, reader, waiter, watcher, mapVars, wire,
                 initialized, calls, panicked>>
  /\ UNCHANGED auxVars

\* ---------------------------------------------- the ctxCmd.Done goroutine
\* <-ctxCmd.Done(), then errs <- errors.New(stderr.String()).
WatcherSend ==
  /\ ~panicked
  /\ watcher = "waiting"
  /\ CtxCmdDone
  /\ IF inCall # Idle
     THEN /\ InitializeReturn("stderr")
          /\ watcher' = "done"
     ELSE /\ watcher' = "send"
          /\ NoneReturns
          /\ UNCHANGED <<sessionVars, ctx>>
  /\ UNCHANGED <<launchVars, procVars, reader, waiter, hs, mapVars, wire,
                 initialized, calls, panicked>>
  /\ UNCHANGED auxVars

\* --------------------------------------------------- the cmd.Wait goroutine
\* cmd.Wait returns once the child has exited and closes the parent ends of
\* the stdin and stdout pipes; then cancel().
WaitReturn ==
  /\ ~panicked
  /\ waiter = "waiting"
  /\ proc = "exited"
  /\ waiter' = "done"
  /\ stdin' = "closed"
  /\ cancelCalled' = TRUE
  /\ NoneReturns
  /\ UNCHANGED <<sessionVars, spawned, closeFn, procVars, reader, watcher, hs, mapVars,
                 wire, initialized, ctx, calls, panicked>>
  /\ UNCHANGED auxVars

\* cmd.Cancel, run by os/exec when ctxCmd is done while the child runs.
CmdCancel ==
  /\ ~panicked
  /\ CtxCmdDone
  /\ proc = "running"
  /\ ~signalled
  /\ signalled' = TRUE
  /\ NoneReturns
  /\ UNCHANGED <<sessionVars, launchVars, proc, taskVars, mapVars,
                 wire, initialized, ctx, calls, panicked>>
  /\ UNCHANGED auxVars

\* ------------------------------------------------------- readResponses
\* The key readResponses hands to c.responses.LoadAndDelete for a message
\* that carries id `id`.
LookupKey_oldest(id) ==
  IF responses = {} THEN id ELSE CHOOSE k \in responses : \A m \in responses : k <= m
LookupKey(id) == id

\* The body of the loop for one line: a line that does not parse or has no
\* id is passed over (continue); otherwise LoadAndDelete and the send on the
\* channel found.
Dispatch_failFast(line) ==
  LET key == LookupKey(line.id)
  IN IF line.kind = "malformed"
     THEN reader' = "done" /\ UNCHANGED <<responses, chans>>
     ELSE IF line.kind = "notification" \/ key \notin responses
     THEN UNCHANGED <<responses, chans, reader>>
     ELSE /\ responses' = responses \ {key}
          /\ IF chans[key].full
             THEN UNCHANGED chans /\ reader' = "blocked"
             ELSE chans' = [chans EXCEPT ![key] = RPCResponse(line)] /\ UNCHANGED reader
Dispatch_stopOnUnknown(line) ==
  LET key == LookupKey(line.id)
  IN IF line.kind = "malformed"
     THEN UNCHANGED <<responses, chans, reader>>
     ELSE IF line.kind = "notification" \/ key \notin responses
     THEN reader' = "done" /\ UNCHANGED <<responses, chans>>
     ELSE /\ responses' = responses \ {key}
          /\ IF chans[key].full
             THEN UNCHANGED chans /\ reader' = "blocked"
             ELSE chans' = [chans EXCEPT ![key] = RPCResponse(line)] /\ UNCHANGED reader
Dispatch_load(line) ==
  LET key == LookupKey(line.id)
  IN IF line.kind \in {"malformed", "notification"} \/ key \notin responses
     THEN UNCHANGED <<responses, chans, reader>>
     ELSE /\ UNCHANGED responses
          /\ IF chans[key].full
             THEN UNCHANGED chans /\ reader' = "blocked"
             ELSE chans' = [chans EXCEPT ![key] = RPCResponse(line)] /\ UNCHANGED reader
Dispatch(line) ==
  LET key == LookupKey(line.id)
  IN IF line.kind \in {"malformed", "notification"} \/ key \notin responses
     THEN UNCHANGED <<responses, chans, reader>>
     ELSE /\ responses' = responses \ {key}
          /\ IF chans[key].full
             THEN UNCHANGED chans /\ reader' = "blocked"
             ELSE chans' = [chans EXCEPT ![key] = RPCResponse(line)] /\ UNCHANGED reader

\* One iteration of the loop: ReadBytes yields `line`, a line the child
\* wrote while it ran (the pipe delivers it even after the child is gone).
ReadLine(line) ==
  /\ ~panicked
  /\ reader = "running"
  /\ Dispatch(line)
  /\ NoneReturns
  /\ UNCHANGED <<sessionVars, launchVars, procVars, waiter, watcher, hs,
                 requestID, wire, initialized, ctx, calls, panicked>>
  /\ UNCHANGED auxVars

\* ReadBytes fails: end of file once the child is gone, or the pipe was
\* closed by cmd.Wait.
ReadEOF ==
  /\ ~panicked
  /\ reader = "running"
  /\ proc = "exited"
  /\ reader' = "done"
  /\ NoneReturns
  /\ UNCHANGED <<sessionVars, launchVars, procVars, waiter, watcher, hs, mapVars, wire,
                 initialized, ctx, calls, panicked>>
  /\ UNCHANGED auxVars

\* ------------------------------------------------------ the child process
\* The child exits: on its own, by a crash, or after SIGTERM.
ProcExit ==
  /\ ~panicked
  /\ proc = "running"
  /\ proc' = "exited"
  /\ NoneReturns
  /\ UNCHANGED <<sessionVars, launchVars, signalled, taskVars, mapVars,
                 wire, initialized, ctx, calls, panicked>>
  /\ UNCHANGED auxVars

\* ------------------------------------------------- the context of Start
\* The 60-second timer of Start fires while Initialize is blocked.
CtxExpire ==
  /\ ~panicked
  /\ inCall.op = "Start"
  /\ ctx = "live"
  /\ ctx' = "deadline"
  /\ NoneReturns
  /\ UNCHANGED <<sessionVars, launchVars, procVars, taskVars, mapVars, wire,
                 initialized, calls, panicked>>
  /\ UNCHANGED auxVars

\* ----------------------------------------------------- steady-state calls
\* The error of client.ListTools / ListPrompts / CallTool on a Session
\* without a Transport.
NotStarted(op) ==
  IF op = "tools/call" THEN "calling tool: not started" ELSE "listing tools: not started"

\* client.ListTools / ListPrompts / CallTool, and sendRequest up to its
\* select: requestID.Add(1), make(chan, 1), responses.Store(id, ch),
\* encoder.Encode.
Invoke(i, op) ==
  /\ ~panicked
  /\ calls[i].pc = "idle"
  /\ inCall = Idle
  /\ \A j \in Calls : j < i => calls[j].pc # "idle"
  /\ IF clC = 0
     THEN /\ calls' = [calls EXCEPT ![i] = [pc |-> "done", id |-> 0]]
          /\ ret' = CallReturned(i, NotStarted(op), NoLine)
          /\ UNCHANGED <<mapVars, wire, panicked>>
     ELSE /\ requestID < MaxId
          /\ requestID' = requestID + 1
          /\ responses' = responses \cup {requestID + 1}
          /\ UNCHANGED chans
          /\ CASE WriteOutcome = "ok" ->
                    /\ wire' = Append(wire, Request(requestID + 1))
                    /\ calls' = [calls EXCEPT ![i] = [pc |-> "wait", id |-> requestID + 1]]
                    /\ NoneReturns
                    /\ UNCHANGED panicked
               [] WriteOutcome = "error" ->
                    /\ calls' = [calls EXCEPT ![i] = [pc |-> "done", id |-> requestID + 1]]
                    /\ ret' = CallReturned(i, "failed to encode request", NoLine)
                    /\ UNCHANGED <<wire, panicked>>
               [] WriteOutcome = "panic" ->
                    /\ panicked' = TRUE
                    /\ NoneReturns
                    /\ UNCHANGED <<wire, calls>>
  /\ UNCHANGED <<sessionVars, launchVars, procVars, taskVars, initialized, ctx>>
  /\ UNCHANGED auxVars

\* What the caller makes of the RPCResponse it received: the server's error
\* message, the decoded result, or a decoding failure when the message had
\* no result.
Outcome(r) ==
  IF r.isError THEN "server error"
  ELSE IF r.src.kind = "request" THEN "failed to unmarshal response"
  ELSE "result"

CallRecv_teardown(i) ==
  /\ ~panicked
  /\ calls[i].pc = "wait"
  /\ chans[calls[i].id].full
  /\ chans' = [chans EXCEPT ![calls[i].id] = EmptyChan]
  /\ calls' = [calls EXCEPT ![i].pc = "done"]
  /\ ret' = CallReturned(i, Outcome(chans[calls[i].id]), chans[calls[i].id].src)
  /\ cancelCalled' = (cancelCalled \/ chans[calls[i].id].isError)
  /\ UNCHANGED <<sessionVars, spawned, stdin, closeFn, procVars, taskVars, requestID,
                 responses, wire, initialized, ctx, panicked>>
  /\ UNCHANGED auxVars

\* The select of sendRequest, response case, and the return of the call.
CallRecv(i) ==
  /\ ~panicked
  /\ calls[i].pc = "wait"
  /\ chans[calls[i].id].full
  /\ chans' = [chans EXCEPT ![calls[i].id] = EmptyChan]
  /\ calls' = [calls EXCEPT ![i].pc = "done"]
  /\ ret' = CallReturned(i, Outcome(chans[calls[i].id]), chans[calls[i].id].src)
  /\ UNCHANGED <<sessionVars, launchVars, procVars, taskVars, requestID, responses, wire,
                 initialized, ctx, panicked>>
  /\ UNCHANGED auxVars

\* The caller's context is cancelled (or its deadline passes) and the select
\* of sendRequest takes the ctx.Done case: return nil, ctx.Err().
CallCtxDone(i) ==
  /\ ~panicked
  /\ calls[i].pc = "wait"
  /\ calls' = [calls EXCEPT ![i].pc = "done"]
  /\ ret' = CallReturned(i, "context canceled", NoLine)
  /\ UNCHANGED <<sessionVars, launchVars, procVars, taskVars, mapVars, wire,
                 initialized, ctx, panicked>>
  /\ UNCHANGED auxVars

\* ------------------------------------------------------------------ Close
\* client.Close(deleteImage), which calls stdioMCPClient.Close, i.e. c.close(),
\* and then runs `docker rmi` when deleteImage is set (`removed`).
Close_noTeardown(deleteImage) ==
  /\ ~panicked
  /\ inCall = Idle
  /\ IF clC = 0
     THEN /\ ret' = [Returned("Close", "not started", FALSE, FALSE)
                       EXCEPT !.deleteImage = deleteImage]
          /\ UNCHANGED <<cancelCalled, panicked>>
     ELSE /\ ret' = [Returned("Close", "nil", FALSE, deleteImage)
                       EXCEPT !.deleteImage = deleteImage]
          /\ UNCHANGED <<cancelCalled, panicked>>
  /\ UNCHANGED <<sessionVars, spawned, stdin, closeFn, procVars, taskVars, mapVars, wire,
                 initialized, ctx, calls>>
  /\ UNCHANGED auxVars

Close(deleteImage) ==
  /\ ~panicked
  /\ inCall = Idle
  /\ IF clC = 0
     THEN /\ ret' = [Returned("Close", "not started", FALSE, FALSE)
                       EXCEPT !.deleteImage = deleteImage]
          /\ UNCHANGED <<cancelCalled, panicked>>
     ELSE IF ~closeFn
     THEN /\ panicked' = TRUE
          /\ NoneReturns
          /\ UNCHANGED cancelCalled
     ELSE /\ cancelCalled' = TRUE
          /\ ret' = [Returned("Close", "nil", FALSE, deleteImage)
                       EXCEPT !.deleteImage = deleteImage]
          /\ UNCHANGED panicked
  /\ UNCHANGED <<sessionVars, spawned, stdin, closeFn, procVars, taskVars, mapVars, wire,
                 initialized, ctx, calls>>
  /\ UNCHANGED auxVars

\* ------------------------------------------------------- specification
Next ==
  \* a first Start, and a Start on a Session that holds a Transport (whose
  \* inputs are never looked at)
  \/ clC = 0 /\ \E p, f \in BOOLEAN, o \in LaunchOutcomes : Start(p, f, o)
  \/ clC # 0 /\ Start(FALSE, FALSE, "started")
  \/ \E o \in LaunchOutcomes : Reinitialize(o)
  \/ HsSendRequest
  \/ HsRecv
  \/ HsCtxDone
  \/ HsNotify
  \/ HsStore
  \/ HsSend
  \/ WatcherSend
  \/ WaitReturn
  \/ CmdCancel
  \/ \E l \in Lines : ReadLine(l)
  \/ ReadEOF
  \/ ProcExit
  \/ CtxExpire
  \/ \E i \in Calls, op \in Methods : Invoke(i, op)
  \/ \E i \in Calls : CallRecv(i)
  \/ \E i \in Calls : CallCtxDone(i)
  \/ \E d \in BOOLEAN : Close(d)

Spec == Init /\ [][Next]_vars

\* The Go scheduler runs every goroutine that can take a step.  Callers of
\* the API, the child process and what it writes, timers and cancellations
\* are under no obligation.
FairSpec ==
  /\ Spec
  /\ WF_vars(HsSendRequest) /\ WF_vars(HsRecv) /\ WF_vars(HsCtxDone)
  /\ WF_vars(HsNotify) /\ WF_vars(HsStore) /\ WF_vars(HsSend)
  /\ WF_vars(WatcherSend) /\ WF_vars(WaitReturn) /\ WF_vars(CmdCancel)
  /\ WF_vars(ReadEOF)
  /\ \A i \in Calls : WF_vars(CallRecv(i))

\* ----------------------------------------------------------------- claims
\* Start has returned nil: the handshake goroutine handed nil to Initialize.
StartSucceeded == hs.pc = "done" /\ hs.err = "nil"

\* C1: every caller that receives a response receives the payload of the
\* line whose id is the id allocated to its own request, as a result when
\* that line carried a result and as an error when it carried an error; no
\* two calls share an id, and a channel only ever holds a line of its id.
C1_OwnResponse ==
  /\ (ret.op = "call" /\ ret.src # NoLine) =>
       /\ ret.src.id = calls[ret.call].id
       /\ ret.res = "result" <=> ret.src.kind = "result"
       /\ ret.res = "server error" <=> ret.src.kind = "error"
  /\ \A i, j \in Calls : i # j /\ calls[i].id # 0 => calls[i].id # calls[j].id
  /\ \A i \in Calls : calls[i].id # 0 => calls[i].id # hs.id
  /\ \A k \in Ids : chans[k].full => chans[k].src.id = k

\* The first call receives its result after the second, later, call was
\* answered.
C1_Witness ==
  /\ ret.op = "call" /\ ret.call = 1 /\ ret.res = "result"
  /\ calls[2].pc = "done" /\ calls[2].id \notin responses /\ ~chans[calls[2].id].full
  /\ calls[2].id > calls[1].id

\* C2: once the child has exited, every call still waiting is eventually
\* released.
C2_PendingReleased ==
  \A i \in Calls : (proc = "exited" /\ calls[i].pc = "wait") ~> (calls[i].pc = "done")

\* C3: a call invoked on a Session whose Start has not succeeded fails with
\* NotStarted and never reaches sendRequest (no id allocated, nothing written).
C3_NotStartedUntilInitialized ==
  ~StartSucceeded =>
    /\ \A i \in Calls : calls[i].id = 0
    /\ ret.op = "call" => ret.res \in {NotStarted(op) : op \in Methods}

\* C4: a Start that failed at the image pull or at the process start leaves
\* the Session without a Transport.
C4_FailedStartNoTransport ==
  (ret.op = "Start" /\ ret.res \in {"pulling image", "failed to start command"})
    => clC = 0

\* C5: when the handshake failed because the deadline elapsed or because the
\* child was gone before it answered, the error Initialize returns is the
\* child's collected standard-error output.
C5_StderrDetail ==
  ( /\ ret.op = "Start" /\ ret.res # "already started"
    /\ hs.err \in {"context deadline exceeded", "failed to encode request"} )
    => ret.res = "stderr"

\* C6: a direct Initialize on an initialized Transport returns "client
\* already initialized", starts no process, writes nothing and leaves the
\* Transport as it was.
C6_SecondInitializeRejected ==
  [][ (initialized /\ inCall = Idle /\ ret'.op = "Initialize")
        => /\ ret'.res = "client already initialized"
           /\ UNCHANGED <<sessionVars, launchVars, procVars, taskVars, mapVars, wire,
                          initialized, ctx, calls, panicked>> ]_vars

C6_Witness ==
  /\ ret = Returned("Initialize", "client already initialized", FALSE, FALSE)
  /\ spawned = 1 /\ proc = "running" /\ initialized

\* C7: the Session never holds a second Transport, and a Start on a Session
\* that holds one returns "already started" without a pull or a launch and
\* without touching the Transport.
C7_OneTransport ==
  /\ [](clC <= 1 /\ spawned <= 1)
  /\ [][ (clC # 0 /\ inCall = Idle /\ ret'.op = "Start")
           => /\ ret' = Returned("Start", "already started", FALSE, FALSE)
              /\ UNCHANGED <<sessionVars, launchVars, procVars, taskVars, mapVars, wire,
                             initialized, ctx, calls, panicked>> ]_vars

C7_Witness ==
  /\ ret = Returned("Start", "already started", FALSE, FALSE)
  /\ clC = 1 /\ proc = "running"

\* C8: once a call that went through sendRequest has returned, the pending
\* mapping holds no entry for its id.
C8_Deregistered ==
  \A i \in Calls : (calls[i].pc = "done" /\ calls[i].id # 0) => calls[i].id \notin responses

\* C9: the child is signalled only after cancel() of ctxCmd; a wait that ends
\* by cancellation (a steady-state call's or the handshake's) changes nothing
\* but that caller's own state.
C9_CancelIsLocal ==
  /\ [](signalled => cancelCalled)
  /\ [][ \A i \in Calls :
           (calls[i].pc = "wait" /\ ret' = CallReturned(i, "context canceled", NoLine))
             => /\ \A j \in Calls \ {i} : calls'[j] = calls[j]
                /\ UNCHANGED <<sessionVars, launchVars, procVars, taskVars, mapVars, wire,
                               initialized, ctx, panicked>> ]_vars
  /\ [][ (hs.pc = "wait" /\ hs'.err \in {"context deadline exceeded", "context canceled"})
           => UNCHANGED <<launchVars, procVars, reader, waiter, watcher, mapVars, wire,
                          calls, panicked>> ]_vars

\* The second call receives its result after the first was cancelled (its
\* request was written and its id is still pending); the child was never
\* signalled and the dispatch loop runs.
C9_Witness ==
  /\ ret = CallReturned(2, "result", [kind |-> "result", id |-> calls[2].id])
  /\ calls[1].pc = "done" /\ calls[1].id \in responses
  /\ \E n \in 1..Len(wire) : wire[n] = calls[1].id
  /\ proc = "running" /\ ~signalled /\ reader = "running"

\* C10: a call that receives a server-reported error returns that error to
\* its own caller, writes nothing more, and leaves the Session, the
\* Transport, the child and every other call as they were.
C10_ServerErrorIsLocal ==
  [][ \A i \in Calls :
        (calls[i].pc = "wait" /\ ret'.op = "call" /\ ret'.call = i /\ ret'.res = "server error")
          => /\ ret'.src = [kind |-> "error", id |-> calls[i].id]
             /\ \A j \in Calls \ {i} : calls'[j] = calls[j]
             /\ UNCHANGED <<sessionVars, launchVars, procVars, taskVars, requestID,
                            responses, wire, initialized, ctx, panicked>> ]_vars

\* A call returns the server's error while another call is in flight on a
\* healthy Session.
C10_Witness ==
  /\ ret.op = "call" /\ ret.res = "server error"
  /\ \E j \in Calls : calls[j].pc = "wait"
  /\ proc = "running" /\ initialized /\ ~cancelCalled /\ reader = "running"

\* =================================================== readResponses, framing
\* The dispatch loop on a stream of bytes.  A byte of the stream is a whole
\* JSON message (a member of Lines, without its newline), a byte that is not
\* JSON, or a newline.
MaxJunk == 3

Junk    == [kind |-> "junk", id |-> 0]
Newline == [kind |-> "newline", id |-> 0]

\* json.Unmarshal(buf, &baseMessage) on what ReadBytes('\n') returned: the
\* line parses only if it is one JSON message and nothing else.
Unmarshal(buf) ==
  IF Len(buf) = 2 /\ buf[1] \in Lines /\ buf[1].kind # "malformed"
  THEN buf[1]
  ELSE [kind |-> "malformed", id |-> 0]

\* A started Session with two calls in their select (ids 2 and 3; id 1 was
\* the handshake's).
TwoCallsPending ==
  /\ clC = 1 /\ inCall = Idle /\ ret = NoReturn
  /\ spawned = 1
  /\ initialized = TRUE /\ stdin = "open" /\ closeFn = TRUE
  /\ proc = "running" /\ cancelCalled = FALSE /\ signalled = FALSE /\ ctx = "cancelled"
  /\ requestID = 3 /\ responses = {2, 3} /\ chans = [i \in Ids |-> EmptyChan]
  /\ wire = <<Request(1), Notification, Request(2), Request(3)>>
  /\ reader = "running" /\ waiter = "waiting" /\ watcher = "waiting"
  /\ hs = [pc |-> "done", id |-> 1, err |-> "nil"]
  /\ calls = [i \in Calls |-> IF i <= 2 THEN [pc |-> "wait", id |-> i + 1] ELSE NoCall]
  /\ panicked = FALSE

\* Sequences over S of length at most n.
SeqUpTo(S, n) == UNION {[1..m -> S] : m \in 0..n}

\* What the child writes: a valid response, then bytes that are not JSON
\* (with or without newlines), then the valid response to the other call.
Streams ==
  { <<m1, Newline>> \o junk \o <<m2, Newline>> :
      m1 \in {l \in Lines : l.kind \in {"result", "error"} /\ l.id \in {2, 3}},
      m2 \in {l \in Lines : l.kind \in {"result", "error"} /\ l.id \in {2, 3}},
      junk \in SeqUpTo({Junk, Newline}, MaxJunk) }

DispatchInit ==
  /\ TwoCallsPending
  /\ stdout \in {[bytes |-> b, pos |-> 0] : b \in {s \in Streams : s[1].id # s[Len(s) - 1].id}}
  /\ callTool = Unused /\ discovery = Unused
  /\ normalizer = Unused /\ launcher = Unused /\ validate = Unused /\ writes = Unused

\* One iteration of the loop on the byte stream: ReadBytes('\n') returns the
\* bytes up to and including the next newline.
ReadBytes ==
  /\ ~panicked
  /\ reader = "running"
  /\ \E n \in (stdout.pos + 1)..Len(stdout.bytes) :
       /\ stdout.bytes[n] = Newline
       /\ \A k \in (stdout.pos + 1)..(n - 1) : stdout.bytes[k] # Newline
       /\ Dispatch(Unmarshal(SubSeq(stdout.bytes, stdout.pos + 1, n)))
       /\ stdout' = [stdout EXCEPT !.pos = n]
  /\ NoneReturns
  /\ UNCHANGED <<sessionVars, launchVars, procVars, waiter, watcher, hs,
                 requestID, wire, initialized, ctx, calls, panicked>>
  /\ UNCHANGED <<callTool, discovery, normalizer, launcher, validate, writes>>

DispatchNext ==
  \/ ReadBytes
  \/ \E i \in Calls : CallRecv(i)

DispatchSpec == DispatchInit /\ [][DispatchNext]_vars

\* Every line of the stream has been read.
AllRead == \A n \in (stdout.pos + 1)..Len(stdout.bytes) : stdout.bytes[n] # Newline

\* The message at position p of the stream reached the channel of its id
\* (and the caller may have taken it from there).
Delivered(p) ==
  LET m == stdout.bytes[p]
  IN \/ chans[m.id] = RPCResponse(m)
     \/ \E i \in Calls : calls[i].id = m.id /\ calls[i].pc = "done" /\ m.id \notin responses

IsMessage(p) == stdout.bytes[p].kind \in {"result", "error"}

\* The message at position p is a line of its own.
OwnLine(p) ==
  /\ p = 1 \/ stdout.bytes[p - 1] = Newline
  /\ p < Len(stdout.bytes) /\ stdout.bytes[p + 1] = Newline

\* C11 (as claimed): whatever non-JSON bytes stand between two valid
\* responses, the loop keeps running and, once it has read the stream, both
\* responses were delivered.
C11_MalformedBytesSkipped ==
  /\ reader = "running"
  /\ AllRead => \A p \in 1..Len(stdout.bytes) : IsMessage(p) => Delivered(p)

\* C11 (amended): malformed lines, i.e. non-JSON bytes ended by a newline,
\* are skipped and the loop keeps running; every valid response that is a
\* line of its own is delivered.
C11_MalformedLinesSkipped ==
  /\ reader = "running"
  /\ AllRead => \A p \in 1..Len(stdout.bytes) : (IsMessage(p) /\ OwnLine(p)) => Delivered(p)

\* Two malformed lines stood between the two responses, all was read and both
\* callers have their response.
C11_Witness ==
  /\ stdout.pos = 6 /\ Len(stdout.bytes) = 6
  /\ stdout.bytes[3] = Junk /\ stdout.bytes[4] = Newline
  /\ \A i \in {1, 2} : calls[i].pc = "done"
  /\ ret.op = "call" /\ ret.src = stdout.bytes[5]

\* ========================================================= client.CallTool
\* A map[string]any of the caller: nil, or a function on a set of keys.
ArgKeys   == {"args", "path", "query"}
ArgValues == {"...", "x", "y"}
NilMap    == [isNil |-> TRUE, m |-> <<>>]
Maps      == {NilMap} \cup
             {[isNil |-> FALSE, m |-> f] : f \in UNION {[K -> ArgValues] : K \in SUBSET ArgKeys}}
len(a)    == Cardinality(DOMAIN a.m)

\* request.Params.Arguments as CallTool leaves it: a nil map is replaced by
\* an empty one, and an empty one gets the entry "args": "...".
Arguments_asGiven(args) ==
  IF args.isNil THEN [isNil |-> FALSE, m |-> <<>>] ELSE args
Arguments(args) ==
  LET a == IF args.isNil THEN [isNil |-> FALSE, m |-> <<>>] ELSE args
  IN IF len(a) = 0 THEN [isNil |-> FALSE, m |-> [k \in {"args"} |-> "..."]] ELSE a

\* A Session whose Start has succeeded and that has made no call yet.
SessionStarted ==
  /\ clC = 1 /\ inCall = Idle /\ ret = NoReturn
  /\ spawned = 1
  /\ initialized = TRUE /\ stdin = "open" /\ closeFn = TRUE
  /\ proc = "running" /\ cancelCalled = FALSE /\ signalled = FALSE /\ ctx = "cancelled"
  /\ requestID = 1 /\ responses = {} /\ chans = [i \in Ids |-> EmptyChan]
  /\ wire = <<Request(1), Notification>>
  /\ reader = "running" /\ waiter = "waiting" /\ watcher = "waiting"
  /\ hs = [pc |-> "done", id |-> 1, err |-> "nil"]
  /\ calls = [i \in Calls |-> NoCall]
  /\ panicked = FALSE

CallToolInit ==
  /\ ClientInit \/ SessionStarted
  /\ callTool \in {[pc |-> "call", args |-> a, request |-> NilMap, err |-> "none"] : a \in Maps}
  /\ stdout = NoBytes /\ discovery = Unused
  /\ normalizer = Unused /\ launcher = Unused /\ validate = Unused /\ writes = Unused

\* CallTool up to the call of cl.c.CallTool(ctx, request), which sends the
\* request it is given.
CallTool ==
  /\ callTool.pc = "call"
  /\ IF clC = 0
     THEN callTool' = [callTool EXCEPT !.pc = "done", !.err = NotStarted("tools/call")]
     ELSE callTool' = [callTool EXCEPT !.pc = "sent", !.request = Arguments(callTool.args)]
  /\ UNCHANGED <<clientVars, stdout, discovery, normalizer, launcher, validate, writes>>

CallToolSpec == CallToolInit /\ [][CallTool]_vars

\* C12: the arguments CallTool sends are never empty; for a nil or empty
\* map of the caller they are exactly the one placeholder entry, and for a
\* map with at least one entry they are the caller's map, no entry added.
C12_NonEmptyArguments ==
  callTool.pc = "sent" =>
    /\ ~callTool.request.isNil /\ len(callTool.request) >= 1
    /\ (callTool.args.isNil \/ len(callTool.args) = 0)
         => (len(callTool.request) = 1 /\ DOMAIN callTool.request.m = {"args"})
    /\ (~callTool.args.isNil /\ len(callTool.args) >= 1)
         => callTool.request = callTool.args

\* The caller passed nil and the request carries the placeholder.
C12_Witness ==
  /\ callTool.pc = "sent" /\ callTool.args = NilMap
  /\ callTool.request.m = [k \in {"args"} |-> "..."]

PollMs    == 100
CeilingMs == 30000
\* Number of chunks the sidecar writes to its log while it is polled.
MaxLog == 2

Requirements == {"", "neo4j", "postgres"}
LogChunks    == {"Starting...", "Started."}
\* time.After(100ms) fires after the period, or later when the loop is late.
Delays       == {PollMs, 2 * PollMs}

NoDiscovery ==
  [pc |-> "tools", requirement |-> "", pulled |-> FALSE, sidecar |-> "none",
   cancelled |-> FALSE, teardown |-> FALSE, elapsed |-> 0, log |-> <<>>,
   ctx |-> "live", err |-> "none", detail |-> <<>>, client |-> "none"]

DiscoveryInit ==
  /\ ClientInit
  /\ discovery \in {[NoDiscovery EXCEPT !.requirement = r] : r \in Requirements}
  /\ stdout = NoBytes /\ callTool = Unused
  /\ normalizer = Unused /\ launcher = Unused /\ validate = Unused /\ writes = Unused

notDiscovery == <<clientVars, stdout, callTool, normalizer, launcher, validate, writes>>

\* The guard at the top of runRequirement.
Supported_any(requirement) == TRUE
Supported(requirement) == requirement = "neo4j"

\* strings.Contains(stdout.String(), "Started.")
Contains(text) == \E n \in 1..Len(text) : text[n] = "Started."

\* stdout.String() while the goroutine of os/exec appends to the same
\* bytes.Buffer without synchronisation: the read yields what was written
\* so far or an earlier content of the buffer.
Prefixes(text) == {SubSeq(text, 1, n) : n \in 0..Len(text)}

\* A return of Tools: the deferred cancel() of the sidecar's context runs if
\* runRequirement has handed it over.
ToolsReturn_noDefer(d, err) ==
  [d EXCEPT !.pc = "returned", !.err = err]
ToolsReturn(d, err) ==
  [d EXCEPT !.pc = "returned", !.err = err, !.cancelled = d.cancelled \/ d.teardown]

\* Tools, its first lines, and runRequirement up to `docker pull`.
Tools ==
  /\ discovery.pc = "tools"
  /\ discovery' =
       IF discovery.requirement = "" THEN [discovery EXCEPT !.pc = "start"]
       ELSE IF ~Supported(discovery.requirement)
       THEN ToolsReturn(discovery, "unsupported requirement")
       ELSE [discovery EXCEPT !.pc = "pull"]
  /\ UNCHANGED notDiscovery

\* cmdPull.Run()
Pull(ok) ==
  /\ discovery.pc = "pull"
  /\ discovery' =
       IF ok THEN [discovery EXCEPT !.pc = "run", !.pulled = TRUE]
       ELSE ToolsReturn([discovery EXCEPT !.pulled = TRUE], "failed to pull Neo4j")
  /\ UNCHANGED notDiscovery

\* cmd.Start() of `docker run ... neo4j`; on failure cancel() and return.
Run(ok) ==
  /\ discovery.pc = "run"
  /\ discovery' =
       IF ok THEN [discovery EXCEPT !.pc = "waitStarted", !.sidecar = "running", !.elapsed = 0]
       ELSE ToolsReturn([discovery EXCEPT !.cancelled = TRUE], "failed to start sidecar")
  /\ UNCHANGED notDiscovery

\* The select of the waitStarted loop, case <-ctx.Done().
WaitCtxDone ==
  /\ discovery.pc = "waitStarted"
  /\ discovery.ctx = "cancelled"
  /\ discovery' = ToolsReturn([discovery EXCEPT !.cancelled = TRUE], "context canceled")
  /\ UNCHANGED notDiscovery

\* The select of the waitStarted loop, case <-time.After(100ms): `delay` has
\* passed since the last iteration, `seen` is what stdout.String() yields.
Tick_firstPoll(delay, seen, seen2) ==
  /\ discovery.pc = "waitStarted"
  /\ LET d == [discovery EXCEPT !.elapsed = discovery.elapsed + delay]
     IN discovery' =
          IF Contains(seen) THEN [d EXCEPT !.pc = "start", !.teardown = TRUE]
          ELSE ToolsReturn([d EXCEPT !.cancelled = TRUE, !.detail = seen2],
                           "failed to start Neo4j")
  /\ UNCHANGED notDiscovery

Tick(delay, seen, seen2) ==
  /\ discovery.pc = "waitStarted"
  /\ LET d == [discovery EXCEPT !.elapsed = discovery.elapsed + delay]
     IN discovery' =
          IF Contains(seen) THEN [d EXCEPT !.pc = "start", !.teardown = TRUE]
          ELSE IF d.elapsed > CeilingMs
          THEN ToolsReturn([d EXCEPT !.cancelled = TRUE, !.detail = seen2],
                           "failed to start Neo4j")
          ELSE d
  /\ UNCHANGED notDiscovery

\* The sidecar writes to its standard output.
LogWrite(chunk) ==
  /\ discovery.pc = "waitStarted"
  /\ discovery.sidecar = "running"
  /\ Len(discovery.log) < MaxLog
  /\ discovery' = [discovery EXCEPT !.log = Append(discovery.log, chunk)]
  /\ UNCHANGED notDiscovery

\* The caller of Tools cancels its context.
CtxCancel ==
  /\ discovery.pc # "returned"
  /\ discovery.ctx = "live"
  /\ discovery' = [discovery EXCEPT !.ctx = "cancelled"]
  /\ UNCHANGED notDiscovery

\* cmd.Cancel of the sidecar, run by os/exec once ctxRequirement is done
\* (cancel() was called, or the parent context was cancelled).
SidecarSignal ==
  /\ discovery.sidecar = "running"
  /\ discovery.cancelled \/ discovery.ctx = "cancelled"
  /\ discovery' = [discovery EXCEPT !.sidecar = "signalled"]
  /\ UNCHANGED notDiscovery

\* c.Start(ctx, debug)
ClientStart(ok) ==
  /\ discovery.pc = "start"
  /\ discovery' =
       IF ok THEN [discovery EXCEPT !.pc = "listTools", !.client = "started"]
       ELSE ToolsReturn([discovery EXCEPT !.client = "failed"], "start failed")
  /\ UNCHANGED notDiscovery

\* c.ListTools(ctx); on failure c.Close(cleanup) and return.
ClientListTools(ok) ==
  /\ discovery.pc = "listTools"
  /\ discovery' =
       IF ok THEN [discovery EXCEPT !.pc = "close"]
       ELSE ToolsReturn([discovery EXCEPT !.client = "closed"], "listing tools failed")
  /\ UNCHANGED notDiscovery

\* c.Close(cleanup), the normalisation of the tools, and the return.
ClientClose(ok) ==
  /\ discovery.pc = "close"
  /\ discovery' =
       ToolsReturn([discovery EXCEPT !.client = "closed"],
                   IF ok THEN "nil" ELSE "close failed")
  /\ UNCHANGED notDiscovery

DiscoveryNext ==
  \/ Tools
  \/ \E ok \in BOOLEAN : Pull(ok)
  \/ \E ok \in BOOLEAN : Run(ok)
  \/ WaitCtxDone
  \/ \E delay \in Delays, seen, seen2 \in Prefixes(discovery.log) : Tick(delay, seen, seen2)
  \/ \E chunk \in LogChunks : LogWrite(chunk)
  \/ CtxCancel
  \/ SidecarSignal
  \/ \E ok \in BOOLEAN : ClientStart(ok)
  \/ \E ok \in BOOLEAN : ClientListTools(ok)
  \/ \E ok \in BOOLEAN : ClientClose(ok)

DiscoverySpec == DiscoveryInit /\ [][DiscoveryNext]_vars

\* Timers fire and the goroutines of Tools and of os/exec run; the sidecar
\* and the caller's context are under no obligation.
DiscoveryFairSpec ==
  /\ DiscoverySpec
  /\ WF_vars(Tools)
  /\ WF_vars(\E delay \in Delays, seen, seen2 \in Prefixes(discovery.log) : Tick(delay, seen, seen2))
  /\ WF_vars(WaitCtxDone)
  /\ WF_vars(SidecarSignal)

\* C14: with a requirement name other than "neo4j", Tools goes from its entry
\* straight to its return with "unsupported requirement": no `docker pull`,
\* no sidecar, no teardown handle, no client.
C14_UnsupportedFailsFast ==
  (discovery.requirement \notin {"", "neo4j"} /\ discovery.pc # "tools") =>
    /\ discovery.pc = "returned"
    /\ discovery.err = "unsupported requirement"
    /\ ~discovery.pulled /\ discovery.sidecar = "none"
    /\ ~discovery.teardown /\ ~discovery.cancelled /\ discovery.client = "none"

C14_Witness ==
  /\ discovery.pc = "returned" /\ discovery.requirement = "postgres"
  /\ discovery.err = "unsupported requirement"

\* C15: the readiness failure is returned only when more than 30 seconds
\* have passed since the sidecar was started, and it carries what was read
\* from the captured log; a loop left without the marker in the log and
\* without cancellation is left by that failure; and if the marker never
\* appears and the context is never cancelled, the loop is left.
C15_ReadinessTimeout ==
  /\ [](discovery.err = "failed to start Neo4j" =>
          /\ discovery.elapsed > CeilingMs
          /\ discovery.sidecar # "none"
          /\ discovery.detail \in Prefixes(discovery.log))
  /\ []((/\ discovery.pc = "returned" /\ discovery.sidecar # "none" /\ ~discovery.teardown
         /\ ~Contains(discovery.log) /\ discovery.ctx = "live")
          => discovery.err = "failed to start Neo4j")
  /\ ([]~Contains(discovery.log) /\ [](discovery.ctx = "live"))
       => (discovery.pc = "waitStarted"
             ~> (discovery.pc = "returned" /\ discovery.err = "failed to start Neo4j"))

\* The failure came at the first poll after the ceiling, with the log the
\* sidecar had written.
C15_Witness ==
  /\ discovery.pc = "returned" /\ discovery.err = "failed to start Neo4j"
  /\ discovery.elapsed = CeilingMs + PollMs
  /\ Len(discovery.log) >= 1 /\ discovery.detail = discovery.log
  /\ discovery.ctx = "live"

\* C16: whenever Tools has returned and a sidecar had been started, cancel()
\* of the sidecar's context has been called, and so it has on the return for
\* a failed start; a sidecar still running then is sent SIGTERM.
C16_SidecarStopped ==
  /\ []((discovery.pc = "returned" /\ discovery.sidecar # "none") => discovery.cancelled)
  /\ []((discovery.pc = "returned" /\ discovery.err = "failed to start sidecar")
          => discovery.cancelled)
  /\ (discovery.pc = "returned" /\ discovery.sidecar = "running")
       ~> (discovery.sidecar = "signalled")

\* Tools has returned its list, and the sidecar was stopped by the deferred
\* teardown alone.
C16_Witness ==
  /\ discovery.pc = "returned" /\ discovery.err = "nil" /\ discovery.teardown
  /\ discovery.sidecar = "signalled" /\ discovery.ctx = "live"

\* ========================================================= Tools, normalizer
\* A string is a sequence of one-character strings; Byte gives the byte of
\* each character used, and Less is Go's `<` on strings (byte-wise
\* lexicographic order, a proper prefix first).
Byte(c) ==
  CASE c = "\n" -> 10 [] c = " " -> 32 [] c = "$" -> 36 [] c = "-" -> 45 [] c = "/" -> 47
    [] c = "0" -> 48 [] c = "9" -> 57 [] c = ":" -> 58 [] c = "A" -> 65 [] c = "P" -> 80
    [] c = "Z" -> 90 [] c = "_" -> 95 [] c = "a" -> 97 [] c = "b" -> 98 [] c = "p" -> 112
    [] c = "x" -> 120 [] c = "z" -> 122

RECURSIVE Less(_, _)
Less(s, t) ==
  IF s = <<>> THEN t # <<>>
  ELSE IF t = <<>> THEN FALSE
  ELSE IF Byte(Head(s)) # Byte(Head(t)) THEN Byte(Head(s)) < Byte(Head(t))
  ELSE Less(Tail(s), Tail(t))

\* sort.Strings
RECURSIVE Insert(_, _)
Insert(x, sorted) ==
  IF sorted = <<>> THEN <<x>>
  ELSE IF Less(x, Head(sorted)) THEN <<x>> \o sorted
  ELSE <<Head(sorted)>> \o Insert(x, Tail(sorted))
RECURSIVE SortStrings(_)
SortStrings(names) ==
  IF names = <<>> THEN <<>> ELSE Insert(Head(names), SortStrings(Tail(names)))

\* The orders in which the elements of a set can come.
Perms(S) == {f \in [1..Cardinality(S) -> S] : \A i, j \in 1..Cardinality(S) : i # j => f[i] # f[j]}
\* SelectSeq with a predicate on membership.
RECURSIVE Only(_, _)
Only(names, S) ==
  IF names = <<>> THEN <<>>
  ELSE (IF Head(names) \in S THEN <<Head(names)>> ELSE <<>>) \o Only(Tail(names), S)

\* Number of raw tools ListTools returned.
MaxTools == 2

ToolNames     == {<<"a">>, <<"b">>}
PropertyNames == {<<"a">>, <<"a", "b">>, <<"b">>}
\* A raw tool: its name, the keys of InputSchema.Properties (every property
\* schema is an object, as the MCP schema has it) and InputSchema.Required.
RawTools ==
  {[Name |-> n, Properties |-> P, Required |-> R] :
     n \in ToolNames, <<P, R>> \in {<<P, R>> \in (SUBSET PropertyNames) \X (SUBSET PropertyNames) : R \subseteq P}}

\* requiredPropertyNames and optionalPropertyNames as the first loop leaves
\* them (`order` is the order in which the map was ranged over), sorted and
\* appended.
propertyNames_unsorted(tool, order) ==
  Only(order, tool.Required) \o Only(order, tool.Properties \ tool.Required)
propertyNames(tool, order) ==
  SortStrings(Only(order, tool.Required))
    \o SortStrings(Only(order, tool.Properties \ tool.Required))

\* The Tool built for one raw tool.
Tool(tool, order) ==
  LET names == propertyNames(tool, order)
  IN [Name |-> tool.Name,
      Arguments |-> [k \in 1..Len(names) |->
                       [Name |-> names[k], Optional |-> names[k] \notin tool.Required]]]

\* tools[i].Name < tools[j].Name never holds for i after j.
SortedByName(tools) ==
  \A i, j \in 1..Len(tools) : i < j => ~Less(tools[j].Name, tools[i].Name)

NormalizerInit ==
  /\ ClientInit
  /\ normalizer \in {[pc |-> "raw", tools |-> t, list |-> <<>>] :
                       t \in UNION {[1..n -> RawTools] : n \in 0..MaxTools}}
  /\ stdout = NoBytes /\ callTool = Unused
  /\ discovery = Unused /\ launcher = Unused /\ validate = Unused /\ writes = Unused

\* The orders in which the maps of the tools of a list can be ranged over.
RECURSIVE Orders(_)
Orders(tools) ==
  IF tools = <<>> THEN {<<>>}
  ELSE {<<o>> \o rest : o \in Perms(Head(tools).Properties), rest \in Orders(Tail(tools))}

\* Tools from sort.Slice to its return: `sorted` is an outcome of sort.Slice
\* (which is not stable), `orders` the order in which each map is ranged over.
Normalize ==
  /\ normalizer.pc = "raw"
  /\ LET n == Len(normalizer.tools)
     IN \E p \in Perms(1..n) :
          LET sorted == [k \in 1..n |-> normalizer.tools[p[k]]]
          IN /\ SortedByName(sorted)
             /\ \E orders \in Orders(sorted) :
                  normalizer' = [normalizer EXCEPT
                                   !.pc = "done",
                                   !.list = [k \in 1..n |-> Tool(sorted[k], orders[k])]]
  /\ UNCHANGED <<clientVars, stdout, callTool, discovery, launcher, validate, writes>>

NormalizerSpec == NormalizerInit /\ [][Normalize]_vars

\* The arguments `args` are right for the raw tool `tool`: each declared
\* property once, required ones first, each group in alphabetical order, and
\* Optional set for exactly the properties not in Required.
ArgumentsFor(args, tool) ==
  /\ {args[k].Name : k \in 1..Len(args)} = tool.Properties
  /\ Len(args) = Cardinality(tool.Properties)
  /\ \A k \in 1..Len(args) : args[k].Optional <=> args[k].Name \notin tool.Required
  /\ \A i, j \in 1..Len(args) :
       i < j => /\ args[i].Optional => args[j].Optional
                /\ args[i].Optional = args[j].Optional => Less(args[i].Name, args[j].Name)

\* C17: the returned tools are the raw tools in order of name, and the
\* arguments of each are right for its raw tool.
C17_NormalizedOrder ==
  normalizer.pc = "done" =>
    /\ Len(normalizer.list) = Len(normalizer.tools)
    /\ SortedByName(normalizer.list)
    /\ \E p \in Perms(1..Len(normalizer.tools)) :
         \A k \in 1..Len(normalizer.list) :
           /\ normalizer.list[k].Name = normalizer.tools[p[k]].Name
           /\ ArgumentsFor(normalizer.list[k].Arguments, normalizer.tools[p[k]])

\* The spec's example with the names a, ab, b: {a: optional, ab: required,
\* b: required} gives [ab, b, a]; and the tool named a comes before tool b.
C17_Witness ==
  /\ normalizer.pc = "done"
  /\ normalizer.tools = <<[Name |-> <<"b">>, Properties |-> {}, Required |-> {}],
                          [Name |-> <<"a">>, Properties |-> PropertyNames,
                           Required |-> {<<"a", "b">>, <<"b">>}]>>
  /\ normalizer.list[1].Name = <<"a">>
  /\ [k \in 1..3 |-> normalizer.list[1].Arguments[k].Name] = << <<"a", "b">>, <<"b">>, <<"a">> >>


\* ------------------------------------------------- argument descriptions
IsSpace(c) == c \in {" ", "\n"}
RECURSIVE TrimLeft(_)
TrimLeft(s) == IF s # <<>> /\ IsSpace(Head(s)) THEN TrimLeft(Tail(s)) ELSE s
RECURSIVE TrimRight(_)
TrimRight(s) ==
  IF s # <<>> /\ IsSpace(s[Len(s)]) THEN TrimRight(SubSeq(s, 1, Len(s) - 1)) ELSE s
TrimSpace(s) == TrimRight(TrimLeft(s))

\* strings.ToLower on the letters used.
ToLower(s) ==
  [k \in 1..Len(s) |->
     CASE s[k] = "A" -> "a" [] s[k] = "P" -> "p" [] s[k] = "Z" -> "z" [] OTHER -> s[k]]
HasPrefix(s, prefix) == Len(s) >= Len(prefix) /\ SubSeq(s, 1, Len(prefix)) = prefix
TrimPrefix(s, prefix) == IF HasPrefix(s, prefix) THEN SubSeq(s, Len(prefix) + 1, Len(s)) ELSE s

\* strings.SplitSeq(input, "\n")
RECURSIVE SplitLines(_)
SplitLines(input) ==
  IF \A k \in 1..Len(input) : input[k] # "\n" THEN <<input>>
  ELSE LET k == CHOOSE k \in 1..Len(input) :
                  input[k] = "\n" /\ \A j \in 1..(k - 1) : input[j] # "\n"
       IN <<SubSeq(input, 1, k - 1)>> \o SplitLines(SubSeq(input, k + 1, Len(input)))

RECURSIVE firstLine(_, _)
firstLine(lines, name) ==
  IF lines = <<>> THEN <<>>
  ELSE LET line == TrimSpace(Head(lines))
       IN IF HasPrefix(ToLower(line), name \o <<":">>)
          THEN TrimSpace(TrimPrefix(line, name \o <<":">>))
          ELSE firstLine(Tail(lines), name)
extractDescription(input, name) == firstLine(SplitLines(input), name)

\* `description` is the property's "description" entry: absent (nil) or text.
argumentDescription(name, description, toolDescription) ==
  IF ~description.nil /\ description.text # <<>> THEN description.text
  ELSE extractDescription(toolDescription, name)

\* Number of lines of a tool description.
MaxLines == 2

ArgumentNames == {<<"p">>, <<"P">>, <<"a", "P">>}
Declared ==
  {[nil |-> TRUE, text |-> <<>>], [nil |-> FALSE, text |-> <<>>], [nil |-> FALSE, text |-> <<"x">>]}
DescriptionLines ==
  {<<>>, <<"x">>, <<"p", ":">>,
   <<"p", ":", " ", "x">>, <<"P", ":", " ", "x">>, <<"a", "P", ":", " ", "x">>,
   <<" ", "p", ":", " ", " ", "x", " ", "a", " ">>, <<"p", ":", "P", ":", " ", "a">>}
RECURSIVE Join(_)
Join(lines) ==
  IF Len(lines) = 0 THEN <<>>
  ELSE IF Len(lines) = 1 THEN lines[1]
  ELSE lines[1] \o <<"\n">> \o Join(Tail(lines))
ToolDescriptions == {Join(l) : l \in UNION {[1..n -> DescriptionLines] : n \in 0..MaxLines}}

DescriptionInit ==
  /\ ClientInit
  /\ normalizer \in {[pc |-> "raw", name |-> n, description |-> d, toolDescription |-> t,
                      Description |-> <<>>] :
                       n \in ArgumentNames, d \in Declared, t \in ToolDescriptions}
  /\ stdout = NoBytes /\ callTool = Unused
  /\ discovery = Unused /\ launcher = Unused /\ validate = Unused /\ writes = Unused

\* Tools filling ToolArgument.Description for one property.
Describe ==
  /\ normalizer.pc = "raw"
  /\ normalizer' = [normalizer EXCEPT
                      !.pc = "done",
                      !.Description = argumentDescription(normalizer.name, normalizer.description,
                                                          normalizer.toolDescription)]
  /\ UNCHANGED <<clientVars, stdout, callTool, discovery, launcher, validate, writes>>

DescriptionSpec == DescriptionInit /\ [][Describe]_vars

\* The lines of `input` of the form `name: text`, by position.
FormLines(input, name) ==
  {k \in 1..Len(SplitLines(input)) : HasPrefix(TrimSpace(SplitLines(input)[k]), name \o <<":">>)}

\* C18: a property without a declared description whose tool description has
\* a line `name: text` gets the trimmed text of the first such line as its
\* description, whatever letters the name contains.
C18_DescriptionFromLine ==
  (normalizer.pc = "done" /\ normalizer.description.nil) =>
    LET lines == SplitLines(normalizer.toolDescription)
        form  == FormLines(normalizer.toolDescription, normalizer.name)
    IN form # {} =>
         LET first == CHOOSE k \in form : \A j \in form : k <= j
         IN normalizer.Description
              = TrimSpace(TrimPrefix(TrimSpace(lines[first]), normalizer.name \o <<":">>))


\* ======================================================= Start, the command
\* Tokens are strings, written as sequences of pieces of text.
Placeholder == <<"{{filesystem.paths|volume-target|into}}">>
\* Number of declared environment variables, and of declared secrets.
MaxVars == 2
\* Number of tokens of the command template.
MaxCommand == 3

\* servers.Env (Example is of type any: absent, or a string) and
\* servers.Secret (Example is a string).
EnvDeclarations ==
  {[Name |-> n, Example |-> e] :
     n \in {<<"K">>, <<"S">>}, e \in {[nil |-> TRUE, text |-> <<>>], [nil |-> FALSE, text |-> <<"v">>]}}
SecretDeclarations == {[Env |-> <<"S">>, Example |-> <<"w">>]}
CommandTokens == {<<"$", "K">>, <<"$", "S">>, <<"x">>, Placeholder}
RunArgs == {<<>>, << <<"-v">> >>}

\* fmt.Sprintf("%v", example)
Sprint(example) == IF example.nil THEN <<"<nil>">> ELSE example.text

RECURSIVE firstEnv(_, _)
firstEnv(arg, env) ==
  IF env = <<>> THEN [found |-> FALSE, value |-> arg]
  ELSE IF arg = <<"$">> \o Head(env).Name THEN [found |-> TRUE, value |-> Sprint(Head(env).Example)]
  ELSE firstEnv(arg, Tail(env))
RECURSIVE firstSecret(_, _)
firstSecret(arg, secrets) ==
  IF secrets = <<>> THEN [found |-> FALSE, value |-> arg]
  ELSE IF arg = <<"$">> \o Head(secrets).Env THEN [found |-> TRUE, value |-> Head(secrets).Example]
  ELSE firstSecret(arg, Tail(secrets))

replacePlaceholders_noLegacy(arg, env, secrets) ==
  IF firstEnv(arg, env).found THEN firstEnv(arg, env).value
  ELSE firstSecret(arg, secrets).value
replacePlaceholders(arg, env, secrets) ==
  IF arg = Placeholder THEN <<".">>
  ELSE IF firstEnv(arg, env).found THEN firstEnv(arg, env).value
  ELSE firstSecret(arg, secrets).value

\* toEnviron: NAME=example for each declared variable and secret, the
\* example of a variable formatted with %s.
toEnviron(env, secrets) ==
  [k \in 1..Len(env) |->
     env[k].Name \o <<"=">>
       \o (IF env[k].Example.nil THEN <<"%!s(<nil>)">> ELSE env[k].Example.text)]
  \o [k \in 1..Len(secrets) |-> secrets[k].Env \o <<"=">> \o secrets[k].Example]

\* "-e", name for each declared name.
RECURSIVE PassThrough_assign(_)
PassThrough_assign(names) ==
  IF names = <<>> THEN <<>>
  ELSE << <<"-e">>, Head(names) \o <<"=">> >> \o PassThrough_assign(Tail(names))
RECURSIVE PassThrough(_)
PassThrough(names) ==
  IF names = <<>> THEN <<>> ELSE << <<"-e">>, Head(names) >> \o PassThrough(Tail(names))

LauncherInit ==
  /\ ClientInit
  /\ launcher \in {[pc |-> "new", args |-> a, env |-> e, secrets |-> s, command |-> c,
                    run |-> <<>>, environ |-> <<>>] :
                     a \in RunArgs,
                     e \in UNION {[1..n -> EnvDeclarations] : n \in 0..MaxVars},
                     s \in UNION {[1..n -> SecretDeclarations] : n \in 0..MaxVars},
                     c \in UNION {[1..n -> CommandTokens] : n \in 0..MaxCommand}}
  /\ stdout = NoBytes /\ callTool = Unused
  /\ discovery = Unused /\ normalizer = Unused /\ validate = Unused /\ writes = Unused

\* client.Start building the arguments and the environment of docker.
BuildArgs ==
  /\ launcher.pc = "new"
  /\ launcher' = [launcher EXCEPT
       !.pc = "built",
       !.environ = toEnviron(launcher.env, launcher.secrets),
       !.run = << <<"run">>, <<"--rm">>, <<"-i">>, <<"--init">>, <<"--cap-drop=ALL">> >>
                 \o launcher.args
                 \o PassThrough([k \in 1..Len(launcher.env) |-> launcher.env[k].Name])
                 \o PassThrough([k \in 1..Len(launcher.secrets) |-> launcher.secrets[k].Env])
                 \o << <<"image">> >>
                 \o [k \in 1..Len(launcher.command) |->
                       replacePlaceholders(launcher.command[k], launcher.env, launcher.secrets)]]
  /\ UNCHANGED <<clientVars, stdout, callTool, discovery, normalizer, validate, writes>>

LauncherSpec == LauncherInit /\ [][BuildArgs]_vars

\* The rendered command: what follows the image in the arguments.
Rendered ==
  SubSeq(launcher.run,
         Len(launcher.run) - Len(launcher.command) + 1, Len(launcher.run))
\* The example values of the declared variables and secrets named by `arg`.
ExampleValues(arg) ==
  {Sprint(launcher.env[k].Example) :
     k \in {k \in 1..Len(launcher.env) : arg = <<"$">> \o launcher.env[k].Name}}
  \cup {launcher.secrets[k].Example :
          k \in {k \in 1..Len(launcher.secrets) : arg = <<"$">> \o launcher.secrets[k].Env}}

\* C19: the rendered command has a token for each token of the template, in
\* the same order: `.` for the legacy placeholder, the example value of a
\* declared variable or secret for `$<name>`, and the token itself otherwise.
C19_CommandRendered ==
  launcher.pc = "built" =>
    /\ Len(launcher.run)
         = 5 + Len(launcher.args) + 2 * Len(launcher.env) + 2 * Len(launcher.secrets) + 1
             + Len(launcher.command)
    /\ launcher.run[Len(launcher.run) - Len(launcher.command)] = <<"image">>
    /\ \A k \in 1..Len(launcher.command) :
         LET arg == launcher.command[k]
         IN IF arg = Placeholder THEN Rendered[k] = <<".">>
            ELSE IF ExampleValues(arg) # {} THEN Rendered[k] \in ExampleValues(arg)
            ELSE Rendered[k] = arg

\* The three cases in one command.
C19_Witness ==
  /\ launcher.pc = "built"
  /\ launcher.command = << <<"$", "K">>, Placeholder, <<"$", "S">> >>
  /\ launcher.env = <<[Name |-> <<"K">>, Example |-> [nil |-> FALSE, text |-> <<"v">>]]>>
  /\ launcher.secrets = <<>>
  /\ Rendered = << <<"v">>, <<".">>, <<"$", "S">> >>


\* =========================================================== server names
LowerLetters ==
  {"a", "b", "c", "d", "e", "f", "g", "h", "i", "j", "k", "l", "m",
   "n", "o", "p", "q", "r", "s", "t", "u", "v", "w", "x", "y", "z"}
DigitChars == {"0", "1", "2", "3", "4", "5", "6", "7", "8", "9"}
\* regexp.MustCompile(`^[a-z0-9-]+$`).MatchString(name)
MatchString(name) ==
  /\ Len(name) >= 1
  /\ \A k \in 1..Len(name) : name[k] \in LowerLetters \cup DigitChars \cup {"-"}

legacyNameExceptions ==
  {<<"S", "Q", "L", "i", "t", "e">>,
   <<"o", "s", "p", "_", "m", "a", "r", "k", "e", "t", "i", "n", "g", "_", "t", "o", "o", "l", "s">>,
   <<"y", "o", "u", "t", "u", "b", "e", "_", "t", "r", "a", "n", "s", "c", "r", "i", "p", "t">>}

\* isNameValid of cmd/validate and isNameValid of cmd/build: "nil", or the
\* error.
validate_isNameValid(name) ==
  IF ~MatchString(name) THEN "name is not valid" ELSE "nil"
build_isNameValid(name) ==
  IF ~MatchString(name)
  THEN (IF name \in legacyNameExceptions THEN "nil" ELSE "name is not valid")
  ELSE "nil"

\* Length of the names tried besides the legacy names and the names of
\* Test_isNameValid.
MaxName == 2
NameChars == {"a", "z", "0", "9", "-", "A", "Z", "_", " ", "/", "$"}
TestNames ==
  {<<"m", "y", "-", "s", "e", "r", "v", "e", "r">>,
   <<"M", "y", "-", "S", "e", "r", "v", "e", "r">>,
   <<"m", "y", "-", "s", "e", "r", "v", "e", "r", "-", "1">>,
   <<"m", "y", "-", "s", "e", "r", "v", "e", "r", "-", "$">>,
   <<"m", "y", " ", "s", "e", "r", "v", "e", "r">>,
   <<"m", "y", "-", "s", "e", "r", "v", "e", "r", "/", "1">>,
   <<"S", "Q", "L", "i", "t", "e">>,
   <<"y", "o", "u", "t", "u", "b", "e", "_", "t", "r", "a", "n", "s", "c", "r", "i", "p", "t">>}
ServerNames ==
  UNION {[1..n -> NameChars] : n \in 0..MaxName} \cup legacyNameExceptions \cup TestNames

ValidateInit ==
  /\ ClientInit
  /\ validate \in {[pc |-> "new", name |-> n, err |-> "none"] : n \in ServerNames}
  /\ stdout = NoBytes /\ callTool = Unused
  /\ discovery = Unused /\ normalizer = Unused /\ launcher = Unused /\ writes = Unused

\* cmd/validate checking the name given with --name.
ValidateName ==
  /\ validate.pc = "new"
  /\ validate' = [validate EXCEPT !.pc = "validate", !.err = validate_isNameValid(validate.name)]
  /\ UNCHANGED <<clientVars, stdout, callTool, discovery, normalizer, launcher, writes>>

\* cmd/build checking the name.
BuildName ==
  /\ validate.pc = "new"
  /\ validate' = [validate EXCEPT !.pc = "build", !.err = build_isNameValid(validate.name)]
  /\ UNCHANGED <<clientVars, stdout, callTool, discovery, normalizer, launcher, writes>>

ValidateNext == ValidateName \/ BuildName
ValidateSpec == ValidateInit /\ [][ValidateNext]_vars

\* A non-empty string of lowercase letters, digits and hyphens.
WellFormed(name) ==
  name # <<>> /\ {name[k] : k \in 1..Len(name)} \subseteq LowerLetters \cup DigitChars \cup {"-"}

\* C20: isNameValid returns no error exactly for the well-formed names and
\* the grandfathered legacy names.
C20_NameAccepted ==
  validate.pc \in {"validate", "build"} =>
    (validate.err = "nil" <=> (WellFormed(validate.name) \/ validate.name \in legacyNameExceptions))


\* ================================================== writes to the stdin pipe
\* encoder.Encode marshals the message and its newline into a buffer of its
\* own and hands the buffer to one Write on c.stdin, the *os.File of the
\* pipe.  That Write takes the descriptor's write lock, calls write(2) until
\* every byte has gone (a write on a pipe can take a part of the buffer),
\* and releases the lock.
\* Number of bytes of an encoded message, the newline included.
MsgLen == 3

\* Writer 0 is the handshake goroutine with the initialized notification,
\* the others are the callers of sendRequest.
Writers == 0..MaxCalls
NoWriter == MaxCalls + 1
\* The n-th byte of the message of writer w; the last one is the newline.
ByteOf(w, n) == [from |-> w, n |-> n]

\* The Session while Start is in Initialize and the handshake goroutine has
\* received the response to `initialize`: cl.c is set, so ListTools,
\* ListPrompts and CallTool of other goroutines reach sendRequest.
Handshaking ==
  /\ clC = 1 /\ inCall = [op |-> "Start", pulled |-> FALSE] /\ ret = NoReturn
  /\ spawned = 1
  /\ initialized = FALSE /\ stdin = "open" /\ closeFn = TRUE
  /\ proc = "running" /\ cancelCalled = FALSE /\ signalled = FALSE /\ ctx = "live"
  /\ requestID = 1 /\ responses = {} /\ chans = [i \in Ids |-> EmptyChan]
  /\ wire = <<Request(1)>>
  /\ reader = "running" /\ waiter = "waiting" /\ watcher = "waiting"
  /\ hs = [pc |-> "notify", id |-> 1, err |-> "none"]
  /\ calls = [i \in Calls |-> NoCall]
  /\ panicked = FALSE

WriterInit ==
  /\ Handshaking
  /\ writes = [pc |-> [w \in Writers |-> IF w = 0 THEN "encode" ELSE "new"],
               id |-> [w \in Writers |-> 0], requestID |-> requestID,
               sent |-> [w \in Writers |-> 0], lock |-> NoWriter, stream |-> <<>>]
  /\ stdout = NoBytes /\ callTool = Unused /\ discovery = Unused
  /\ normalizer = Unused /\ launcher = Unused /\ validate = Unused

notWrites == <<clientVars, stdout, callTool, discovery, normalizer, launcher, validate>>

\* sendRequest up to the encoder: requestID.Add(1), make(chan, 1),
\* responses.Store(id, ch).
Allocate(w) ==
  /\ writes.pc[w] = "new"
  /\ writes' = [writes EXCEPT !.pc[w] = "encode", !.id[w] = writes.requestID + 1,
                              !.requestID = @ + 1]
  /\ UNCHANGED notWrites

\* The write lock of the descriptor can be taken.
WriteLockFree_always == TRUE
WriteLockFree == writes.lock = NoWriter

\* Encode has marshalled the message and enters Write: fd.writeLock().
WriteLock(w) ==
  /\ writes.pc[w] = "encode"
  /\ WriteLockFree
  /\ writes' = [writes EXCEPT !.pc[w] = "write", !.lock = w]
  /\ UNCHANGED notWrites

\* One write(2) of the loop of Write: the pipe takes n of the bytes left.
WriteSyscall(w, n) ==
  /\ writes.pc[w] = "write"
  /\ writes.sent[w] + n <= MsgLen
  /\ writes' = [writes EXCEPT
                  !.sent[w] = @ + n,
                  !.stream = @ \o [k \in 1..n |-> ByteOf(w, writes.sent[w] + k)]]
  /\ UNCHANGED notWrites

\* Every byte has gone: fd.writeUnlock(), and Encode returns.
WriteUnlock(w) ==
  /\ writes.pc[w] = "write"
  /\ writes.sent[w] = MsgLen
  /\ writes' = [writes EXCEPT !.pc[w] = "done",
                              !.lock = IF writes.lock = w THEN NoWriter ELSE @]
  /\ UNCHANGED notWrites

WriterNext ==
  \/ \E w \in Writers : Allocate(w)
  \/ \E w \in Writers : WriteLock(w)
  \/ \E w \in Writers, n \in 1..MsgLen : WriteSyscall(w, n)
  \/ \E w \in Writers : WriteUnlock(w)

WriterSpec == WriterInit /\ [][WriterNext]_vars

\* C21: the bytes the child sees are whole messages one after the other (and
\* at the end the part written so far of the one in progress): a byte that
\* is not the first of its message follows the byte before it of the same
\* message, and only a newline is followed by another message.
C21_WritesDoNotInterleave ==
  \A p \in 1..Len(writes.stream) :
    LET b == writes.stream[p]
    IN /\ b.n # 1 => (p > 1 /\ writes.stream[p - 1] = ByteOf(b.from, b.n - 1))
       /\ (b.n = 1 /\ p > 1) => writes.stream[p - 1].n = MsgLen
       /\ \A q \in 1..Len(writes.stream) : writes.stream[q] = b => q = p

\* A caller is in the middle of its message while the notification and
\* another caller stand at the lock, and a message was written before.
C21_Witness ==
  /\ writes.pc[2] = "write" /\ writes.sent[2] = 1
  /\ writes.pc[0] = "encode" /\ writes.pc[1] = "done"
  /\ Len(writes.stream) = MsgLen + 1


\* ================================================ readResponses, any lines
\* Number of lines the child writes.
MaxInbound == 2

\* What the child writes: any lines, each with its newline.
RECURSIVE Terminated(_)
Terminated(lines) ==
  IF lines = <<>> THEN <<>> ELSE <<Head(lines), Newline>> \o Terminated(Tail(lines))

InboundInit ==
  /\ SessionStarted \/ TwoCallsPending
  /\ stdout \in {[bytes |-> b, pos |-> 0] : b \in {Terminated(l) : l \in SeqUpTo(Lines, MaxInbound)}}
  /\ callTool = Unused /\ discovery = Unused
  /\ normalizer = Unused /\ launcher = Unused /\ validate = Unused /\ writes = Unused

InboundNext ==
  \/ ReadBytes
  \/ \E i \in Calls, op \in Methods : Invoke(i, op)
  \/ \E i \in Calls : CallRecv(i)
  \/ \E i \in Calls : CallCtxDone(i)

InboundSpec == InboundInit /\ [][InboundNext]_vars

\* The message readResponses takes in the step at hand.
Taken == Unmarshal(SubSeq(stdout.bytes, stdout.pos + 1, stdout'.pos))

\* C22: a message without an id, or with an id that has no entry in the
\* pending mapping, changes neither the mapping nor any channel nor any
\* call, returns nothing to a caller and leaves the loop running.
C22_UnmatchedDropped ==
  [][ (stdout'.pos # stdout.pos
         /\ (Taken.kind = "notification"
               \/ (Taken.kind \in {"result", "error", "request"} /\ Taken.id \notin responses)))
        => /\ UNCHANGED <<responses, chans, calls>>
           /\ ret' = NoReturn
           /\ reader' = "running" ]_vars

\* A notification and a response with the id of the handshake (delivered
\* long ago) have been read; both calls still wait and the loop runs.
C22_Witness ==
  /\ stdout.bytes = <<[kind |-> "notification", id |-> 0], Newline,
                      [kind |-> "result", id |-> 1], Newline>>
  /\ stdout.pos = 4
  /\ responses = {2, 3} /\ \A i \in {1, 2} : calls[i].pc = "wait" /\ ~chans[calls[i].id].full
  /\ reader = "running"


\* ================================================ Initialize, order of events
\* C23: the handshake goroutine writes the `initialize` request, receives a
\* result for it, writes the initialized notification and then sets the
\* flag, in this order; the flag is not set when the response was an error
\* or the notification could not be written.
C23_HandshakeOrder ==
  /\ [](initialized =>
          /\ hs.pc \in {"send", "done"} /\ hs.err = "nil"
          /\ \E p, q \in 1..Len(wire) : p < q /\ wire[p] = Request(hs.id) /\ wire[q] = Notification)
  /\ [](hs.err \notin {"none", "nil"} => ~initialized)
  /\ [][ /\ (hs.pc # "wait" /\ hs'.pc = "wait")
             => (hs.pc = "request" /\ wire' = Append(wire, Request(hs'.id)))
         /\ (hs.pc # "notify" /\ hs'.pc = "notify")
             => (hs.pc = "wait" /\ chans[hs.id] = RPCResponse([kind |-> "result", id |-> hs.id]))
         /\ (hs.pc # "store" /\ hs'.pc = "store")
             => (hs.pc = "notify" /\ wire' = Append(wire, Notification))
         /\ (~initialized /\ initialized') => (hs.pc = "store" /\ wire' = wire)
         /\ (hs.pc = "wait" /\ chans[hs.id].full /\ chans[hs.id].src.kind # "result"
               /\ hs'.pc # "wait")
             => (hs'.pc = "send" /\ hs'.err \notin {"none", "nil"} /\ wire' = wire)
       ]_vars

\* The flag has just been set, after the request and the notification.
C23_Witness ==
  /\ initialized /\ hs.pc = "send" /\ hs.err = "nil"
  /\ wire = <<Request(1), Notification>>
  /\ inCall.op = "Start"


\* ============================================ the goroutines of Initialize
\* C24: once Initialize has returned and the child has exited, every
\* goroutine spawned by Initialize other than the dispatch loop terminates;
\* none stays blocked for ever.  The others are cmd.Wait, the one on
\* ctxCmd.Done and the handshake.
C24_OnlyDispatchLoopRemains ==
  (spawned > 0 /\ inCall = Idle /\ proc = "exited")
    ~> (\/ panicked
        \/ /\ waiter \in {"none", "done"}
           /\ watcher \in {"none", "done"}
           /\ hs.pc \in {"none", "done"})


\* ================================================== Start, the invocation
\* The flags: what stands before the image.
Flags == SubSeq(launcher.run, 1, Len(launcher.run) - Len(launcher.command) - 1)
\* The values of the declared variables and secrets.
DeclaredValues ==
  {launcher.env[k].Example.text : k \in {k \in 1..Len(launcher.env) : ~launcher.env[k].Example.nil}}
  \cup {launcher.secrets[k].Example : k \in 1..Len(launcher.secrets)}
\* The invocation starts with the isolation defaults, then the extra
\* arguments, then `-e NAME` for each declared variable and each declared
\* secret, then the image, then one token for each token of the template.
InvocationShape ==
  /\ Flags = << <<"run">>, <<"--rm">>, <<"-i">>, <<"--init">>, <<"--cap-drop=ALL">> >>
               \o launcher.args
               \o [k \in 1..(2 * Len(launcher.env)) |->
                     IF k % 2 = 1 THEN <<"-e">> ELSE launcher.env[k \div 2].Name]
               \o [k \in 1..(2 * Len(launcher.secrets)) |->
                     IF k % 2 = 1 THEN <<"-e">> ELSE launcher.secrets[k \div 2].Env]
  /\ launcher.run[Len(Flags) + 1] = <<"image">>
  /\ Len(launcher.run) = Len(Flags) + 1 + Len(launcher.command)
\* The values go to the process through its environment.
ValuesInEnvironment ==
  /\ Len(launcher.environ) = Len(launcher.env) + Len(launcher.secrets)
  /\ \A k \in 1..Len(launcher.env) :
       ~launcher.env[k].Example.nil
         => launcher.environ[k] = launcher.env[k].Name \o <<"=">> \o launcher.env[k].Example.text
  /\ \A k \in 1..Len(launcher.secrets) :
       launcher.environ[Len(launcher.env) + k]
         = launcher.secrets[k].Env \o <<"=">> \o launcher.secrets[k].Example

C26_DispatchNeverBlocks ==
  /\ [](reader # "blocked")
  /\ [](\A k \in Ids : chans[k].full => k \notin responses)
  /\ [][ \A k \in Ids :
           /\ (chans'[k].full /\ chans'[k] # chans[k])
                => (~chans[k].full /\ k \in responses /\ k \notin responses')
           /\ (k \in responses' /\ k \notin responses) => (k > requestID /\ ~chans[k].full)
       ]_vars

\* Two responses with the id of the first call have been read, the second
\* while the first was still in the channel; the loop runs.
C26_Witness ==
  /\ stdout.pos = 4 /\ Len(stdout.bytes) = 4
  /\ stdout.bytes[1] = [kind |-> "result", id |-> 2]
  /\ stdout.bytes[3] = [kind |-> "error", id |-> 2]
  /\ chans[2] = RPCResponse([kind |-> "result", id |-> 2])
  /\ calls[1] = [pc |-> "wait", id |-> 2]
  /\ reader = "running"


\* C27: a line that carries a method and an id (a request of the server)
\* never reaches a response channel and never completes a call; only lines
\* with a result or an error do.
C27_ServerRequestNotAResponse ==
  /\ \A k \in Ids : chans[k].full => chans[k].src.kind \in {"result", "error"}
  /\ (ret.op = "call" /\ ret.src # NoLine) => ret.src.kind \in {"result", "error"}


\* ============================================ Initialize, the flag and errs
\* C28: once Initialize has returned an error the flag is false, at the
\* return and ever after.  Initialize has returned an error when it received
\* from the goroutine on ctxCmd.Done, or an error from the handshake goroutine.
C28_InitializedOnlyOnSuccess ==
  /\ (watcher = "done" \/ (hs.pc = "done" /\ hs.err # "nil")) => ~initialized
  /\ (ret.op \in {"Start", "Initialize"}
        /\ ret.res \notin {"nil", "already started", "client already initialized"})
       => ~initialized


\* ===================================================== Tools and the child
\* C29: when Tools returns, a child that is still running has been told to
\* terminate: cancel() of its context has been called.  Tools returns when
\* c.Start has failed (it returns that error at once), or when c.Close has run
\* (after ListTools, failed or not).  The client of Tools is new, so its Start
\* is never "already started" and its Close never "not started".
C29_NoChildOutlivesTools ==
  (\/ ret.op = "Start" /\ ret.res \notin {"nil", "already started"}
   \/ ret.op = "Close" /\ ret.res # "not started")
    => (proc = "running" => cancelCalled)


\* ================================================ Close and the teardown
\* C30: a Session that holds a Transport holds one whose close function is
\* set, and Close returns "not started" or has called that function.
C30_TeardownInstalled ==
  /\ clC # 0 => closeFn
  /\ ret.op = "Close" => (ret.res = "not started" \/ (closeFn /\ cancelCalled))
====
